---- MODULE Spec2Model ----
(***************************************************************************)
(* Model of the Discord -> Google Keep capture bot (src/main.py).          *)
(*                                                                         *)
(* The bot runs on one asyncio event loop.  A handler (on_message, the     *)
(* NoteView button callbacks) runs without interruption from one `await`   *)
(* to the next; the KeepClient calls are plain blocking calls, so a whole  *)
(* create_note/create_list runs inside one such section.  The model has    *)
(* one action per section, and splits the KeepClient operation into its    *)
(* backend calls while `loop` records which handler holds the event loop.  *)
(*                                                                         *)
(* Text is modelled as a sequence of characters, a JSON list as a sequence *)
(* of such texts.                                                          *)
(***************************************************************************)
EXTENDS Integers, Sequences, FiniteSets, TLC

\* Bounds of the model.
MaxMsgs == 2        \* inbound messages
MaxClicks == 2      \* button interactions delivered to the bot
MaxAuthorId == 2    \* message authors are the ids 1..MaxAuthorId

VARIABLES
    env,      \* the environment variables read at import (lines 21-26)
    ready,    \* on_ready has run
    authed,   \* keep_client.keep has been authenticated by a login
    lastLogin, \* the credentials the last login() used, "never" before the first
    msgs,     \* per inbound message: the on_message handler's position and effects
    views,    \* per message: the NoteView sent with the preview
    shown,    \* per message: the preview as Discord displays it
    pending,  \* per message: the button interactions delivered and not yet handled
    clicks,   \* the number of button presses so far
    loop,     \* the message whose confirm callback is inside its blocking section, or 0
    op,       \* the KeepClient operation in progress
    hist      \* per capture: what has happened to it so far

vars == <<env, ready, authed, lastLogin, msgs, views, shown, pending, clicks, loop, op, hist>>

Msgs == 1..MaxMsgs
AuthorIds == 1..MaxAuthorId

-----------------------------------------------------------------------------
\* Configuration (lines 21-26)

\* OWNER_ID = int(os.getenv('OWNER_ID', 0))
OWNER_ID_unset_is_first_user == IF env.ownerSet THEN env.owner ELSE 1
OWNER_ID == IF env.ownerSet THEN env.owner ELSE 0

\* The credential settings told apart by login(): a token (with or without a
\* password beside it), user and password, a user alone, nothing.
Credentials ==
    { [GOOGLE_MASTER_TOKEN |-> TRUE, GOOGLE_USER |-> TRUE, GOOGLE_APP_PASSWORD |-> FALSE],
      [GOOGLE_MASTER_TOKEN |-> TRUE, GOOGLE_USER |-> TRUE, GOOGLE_APP_PASSWORD |-> TRUE],
      [GOOGLE_MASTER_TOKEN |-> FALSE, GOOGLE_USER |-> TRUE, GOOGLE_APP_PASSWORD |-> TRUE],
      [GOOGLE_MASTER_TOKEN |-> FALSE, GOOGLE_USER |-> TRUE, GOOGLE_APP_PASSWORD |-> FALSE],
      [GOOGLE_MASTER_TOKEN |-> FALSE, GOOGLE_USER |-> FALSE, GOOGLE_APP_PASSWORD |-> FALSE] }

\* OWNER_ID is unset, or set to a user's id; ids are only compared, so the
\* configured owner is taken to be user 1.
Envs ==
    { [ownerSet |-> o, owner |-> IF o THEN 1 ELSE 0,
       GOOGLE_MASTER_TOKEN |-> c.GOOGLE_MASTER_TOKEN, GOOGLE_USER |-> c.GOOGLE_USER,
       GOOGLE_APP_PASSWORD |-> c.GOOGLE_APP_PASSWORD] : o \in BOOLEAN, c \in Credentials }

-----------------------------------------------------------------------------
\* Text and JSON values

NL == "\n"
DefaultTitle == "Nota sin titulo"
Absent == "absent"

\* A JSON value found under 'content': a string, a list of strings, a number,
\* or nothing (the key is missing).
CStr(s) == [tag |-> "str", str |-> s, items |-> <<>>]
CList(l) == [tag |-> "list", str |-> <<>>, items |-> l]
CNum == [tag |-> "num", str |-> <<>>, items |-> <<>>]
CNone == [tag |-> "none", str |-> <<>>, items |-> <<>>]

IsList(c) == c.tag = "list"
IsStr(c) == c.tag = "str"

\* "\n".join(items)
RECURSIVE Join(_)
Join(items) ==
    IF Len(items) = 0 THEN <<>>
    ELSE IF Len(items) = 1 THEN items[1]
    ELSE items[1] \o <<NL>> \o Join(Tail(items))

-----------------------------------------------------------------------------
\* TextClassifier: analyze_text (lines 98-138)

\* What the LLM may answer: text that is no JSON, the JSON null, a JSON array,
\* or a JSON object in which each of the keys title, type, content is present
\* or missing.
Obj(title, type, content) ==
    [kind |-> "object", title |-> title, type |-> type, content |-> content]
Invalid == [kind |-> "invalid", title |-> Absent, type |-> Absent, content |-> CNone]
NullJson == [kind |-> "null", title |-> Absent, type |-> Absent, content |-> CNone]
ArrayJson == [kind |-> "array", title |-> Absent, type |-> Absent, content |-> CNone]

TextA == <<"a">>
TextB == <<"b">>

\* The answers used where the interest is in what follows the classification.
CommonOutputs ==
    { Invalid,
      Obj("T", "NOTE", CStr(TextA)),
      Obj("T", "LIST", CList(<<TextA, TextB>>)) }

\* Every shape of answer: the ones above, null, an array, the empty object,
\* objects with a key missing, an empty title, a content that is neither a
\* string nor a list, and each pairing of type with the kind of content.
TextAB == <<"a", "b">>
RichOutputs ==
    CommonOutputs \cup
    { NullJson, ArrayJson,
      Obj(Absent, Absent, CNone),
      Obj("T", "NOTE", CNone),
      Obj("T", "LIST", CNone),
      Obj("T", "NOTE", CNum),
      Obj("", "NOTE", CStr(TextA)),
      Obj(Absent, Absent, CStr(TextAB)),
      Obj("T", "NOTE", CList(<<TextA, TextB>>)),
      Obj("T", Absent, CList(<<TextB, TextA>>)),
      Obj("T", "LIST", CStr(TextA)),
      Obj("T", "LIST", CList(<<TextB, TextAB, TextA>>)),
      Obj("T", "LIST", CList(<<>>)),
      Obj("T", "NOTE", CList(<<>>)) }

\* The value analyze_text returns for the answer `out`: json.loads' result
\* (None for the JSON null), or None when anything in the try block raised
\* (lines 121-138).
PyNone == [kind |-> "None", title |-> Absent, type |-> Absent, content |-> CNone]
analyze_text(out) == IF out.kind \in {"invalid", "null"} THEN PyNone ELSE out

\* Python truth of analyze_text's result (`not analysis`, line 223): None, null
\* and the empty object are false.
Truthy_unchecked(a) == TRUE
Truthy(a) ==
    \/ a.kind = "array"
    \/ a.kind = "object" /\ ~(a.title = Absent /\ a.type = Absent /\ a.content = CNone)

\* Lines 228-248 for a truthy result: the NoteView's arguments, or crash when
\* one of the statements raises (.get on a list, slicing None or a number).
Preview(a) ==
    LET title == IF a.title = Absent THEN DefaultTitle ELSE a.title
        note_type == IF a.type = Absent THEN "NOTE" ELSE a.type
        content == a.content
    IN  IF a.kind # "object"
        THEN [crash |-> TRUE, title |-> Absent, note_type |-> Absent, content |-> CNone]
        ELSE IF note_type = "LIST" /\ IsList(content)
        THEN [crash |-> FALSE, title |-> title, note_type |-> note_type, content |-> content]
        ELSE LET c == IF IsList(content) THEN CStr(Join(content.items)) ELSE content
             IN  [crash |-> ~IsStr(c), title |-> title, note_type |-> note_type,
                  content |-> IF IsStr(c) THEN c ELSE CNone]

-----------------------------------------------------------------------------
\* The event loop

\* A callback starts only while no other is inside its blocking section:
\* create_note / create_list are plain calls (lines 161, 168), not awaited, so
\* the event loop runs nothing else until they return.
LoopFree_not_held == TRUE
LoopFree == loop = 0

-----------------------------------------------------------------------------
\* on_message (lines 200-249)

Texts == {<<>>, <<"h", "i">>}

\* reactions: the add_reaction calls made; reply: what was sent to the channel;
\* text: message.content as read at line 216; analysis: what analyze_text
\* returned.
NotAnalyzed == [kind |-> "unset", title |-> Absent, type |-> Absent, content |-> CNone]
NoMsg == [pc |-> "none", author |-> 0, reactions |-> {}, llmCalls |-> 0, reply |-> "none",
          text |-> <<>>, analysis |-> NotAnalyzed]
NoView == [exists |-> FALSE, title |-> Absent, note_type |-> Absent,
           content |-> CNone, disabled |-> FALSE]

\* Line 207: message.author.id != OWNER_ID returns.
IsOwner_any(author) == TRUE
IsOwner(author) == author = OWNER_ID

\* Line 217: `not user_text` returns.
IsEmptyText_never(text) == FALSE
IsEmptyText(text) == text = <<>>

\* The handler from its start to its first await (lines 203-214): the two
\* early returns, then the eyes reaction (a failure of it is caught and
\* logged).  Messages are delivered once the client is ready.
Receive(m) ==
    /\ msgs[m].pc = "none"
    /\ \A k \in Msgs : k < m => msgs[k].pc # "none"
    /\ ready
    /\ LoopFree
    /\ \E author \in AuthorIds, fromBot \in BOOLEAN :
         LET rec == [NoMsg EXCEPT !.author = author]
         IN  IF fromBot
             THEN msgs' = [msgs EXCEPT ![m] = [NoMsg EXCEPT !.pc = "own"]]
             ELSE IF ~IsOwner(author)
             THEN msgs' = [msgs EXCEPT ![m] = [rec EXCEPT !.pc = "ignored"]]
             ELSE msgs' = [msgs EXCEPT ![m] =
                             [rec EXCEPT !.pc = "reacted", !.reactions = {"eyes"}]]
    /\ UNCHANGED <<env, ready, authed, lastLogin, views, shown, pending, clicks, loop, op, hist>>

\* The rest of the handler (lines 216-249), with the message's text and the
\* LLM's answer drawn from outs.
AnalyzeWith(m, outs) ==
    /\ msgs[m].pc = "reacted"
    /\ LoopFree
    /\ \E user_text \in Texts :
       IF IsEmptyText(user_text)
       THEN /\ msgs' = [msgs EXCEPT ![m] = [msgs[m] EXCEPT !.pc = "empty", !.text = user_text]]
            /\ UNCHANGED <<views, shown>>
       ELSE \E out \in outs :
              LET a == analyze_text(out)
                  p == Preview(a)
                  called == [msgs[m] EXCEPT !.llmCalls = @ + 1, !.text = user_text,
                                            !.analysis = a]
              IN  IF ~Truthy(a)
                  THEN /\ msgs' = [msgs EXCEPT ![m] =
                                     [called EXCEPT !.pc = "failed",
                                                    !.reactions = @ \cup {"cross"},
                                                    !.reply = "error"]]
                       /\ UNCHANGED <<views, shown>>
                  ELSE IF p.crash
                  THEN /\ msgs' = [msgs EXCEPT ![m] = [called EXCEPT !.pc = "crashed"]]
                       /\ UNCHANGED <<views, shown>>
                  ELSE /\ msgs' = [msgs EXCEPT ![m] =
                                     [called EXCEPT !.pc = "staged", !.reply = "preview"]]
                       /\ views' = [views EXCEPT ![m] =
                                      [exists |-> TRUE, title |-> p.title,
                                       note_type |-> p.note_type, content |-> p.content,
                                       disabled |-> FALSE]]
                       /\ shown' = [shown EXCEPT ![m] = "preview"]
    /\ UNCHANGED <<env, ready, authed, lastLogin, pending, clicks, loop, op, hist>>

Analyze(m) == AnalyzeWith(m, CommonOutputs)

\* The first message is answered with any of RichOutputs, the later ones with
\* CommonOutputs: a capture of any shape, followed by ordinary ones.
AnalyzeAny(m) == AnalyzeWith(m, IF m = 1 THEN RichOutputs ELSE CommonOutputs)

-----------------------------------------------------------------------------
\* KeepClient (lines 30-89)

\* login (lines 34-54): the credential mode it uses, and whether the backend
\* accepts.  With no credentials it raises without calling the backend.
LoginMode_password_first ==
    IF env.GOOGLE_USER /\ env.GOOGLE_APP_PASSWORD THEN "password"
    ELSE IF env.GOOGLE_MASTER_TOKEN THEN "token"
    ELSE "none"
LoginMode ==
    IF env.GOOGLE_MASTER_TOKEN THEN "token"
    ELSE IF env.GOOGLE_USER /\ env.GOOGLE_APP_PASSWORD THEN "password"
    ELSE "none"

LoginResults ==
    IF LoginMode = "none"
    THEN {[ok |-> FALSE, mode |-> "none", error |-> "NoCredentials"]}
    ELSE {[ok |-> TRUE, mode |-> LoginMode, error |-> "none"],
          [ok |-> FALSE, mode |-> LoginMode, error |-> "AuthError"]}

\* keep.sync() fails on a client that was never authenticated, and may fail on
\* one that was (the backend drops sessions without notice).
SyncResults == IF authed THEN {TRUE, FALSE} ELSE {FALSE}

NoOp == [cap |-> 0, fn |-> "none", title |-> Absent, arg |-> CNone,
         pc |-> "idle", calls |-> <<>>, sent |-> <<>>, error |-> "none"]

\* create_note / create_list start with _ensure_sync (lines 75, 83).
FirstStep_no_pre_sync == "create"
FirstStep == "presync"

\* _ensure_sync (lines 56-64): a failed sync is logged and login() is called;
\* whatever login() raises goes up, and a login that returns ends _ensure_sync.
AfterPreSync(ok) == IF ok THEN "create" ELSE "login"

Logins(calls) == {i \in 1..Len(calls) : calls[i] \in {"login_ok", "login_fail"}}
AfterLogin_second_attempt(r) ==
    IF r.ok THEN "create" ELSE IF Logins(op.calls) = {} THEN "login" ELSE "raised"
AfterLogin(r) == IF r.ok THEN "create" ELSE "raised"

\* What _ensure_sync raises when login() raised r.error: login's exception
\* (line 54 raises it, line 64 lets it pass); the sync's exception was logged.
RaisedByEnsureSync_sync_error(r) == "SyncError"
RaisedByEnsureSync(r) == r.error

\* _final_sync (lines 66-72): a failed sync is logged and raised again.
AfterPostSync_swallows(ok) == "returned"
AfterPostSync(ok) == IF ok THEN "returned" ELSE "raised"

\* list_items = [(item, False) for item in items] (line 86)
ListItems_reversed(items) ==
    [i \in 1..Len(items) |-> [text |-> items[Len(items) + 1 - i], checked |-> FALSE]]
ListItems(items) == [i \in 1..Len(items) |-> [text |-> items[i], checked |-> FALSE]]

PreSync(m) ==
    /\ loop = m
    /\ op.pc = "presync"
    /\ \E ok \in SyncResults :
         op' = [op EXCEPT !.pc = AfterPreSync(ok),
                          !.calls = Append(@, IF ok THEN "sync_ok" ELSE "sync_fail")]
    /\ UNCHANGED <<env, ready, authed, lastLogin, msgs, views, shown, pending, clicks, loop, hist>>

Relogin(m) ==
    /\ loop = m
    /\ op.pc = "login"
    /\ \E r \in LoginResults :
         /\ op' = [op EXCEPT !.pc = AfterLogin(r),
                             !.calls = Append(@, IF r.ok THEN "login_ok" ELSE "login_fail"),
                             !.error = IF AfterLogin(r) = "raised"
                                       THEN RaisedByEnsureSync(r) ELSE "none"]
         /\ authed' = (authed \/ r.ok)
         /\ lastLogin' = r.mode
    /\ UNCHANGED <<env, ready, msgs, views, shown, pending, clicks, loop, hist>>

\* keep.createNote / keep.createList (lines 76, 87): the node is built in
\* memory, which is taken not to raise.
Create(m) ==
    /\ loop = m
    /\ op.pc = "create"
    /\ op' = [op EXCEPT !.pc = "postsync",
                        !.calls = Append(@, IF op.fn = "create_list"
                                            THEN "createList" ELSE "createNote"),
                        !.sent = IF op.fn = "create_list"
                                 THEN ListItems(op.arg.items) ELSE op.arg.str]
    /\ hist' = [hist EXCEPT ![m].writes = @ + 1]
    /\ UNCHANGED <<env, ready, authed, lastLogin, msgs, views, shown, pending, clicks, loop>>

PostSync(m) ==
    /\ loop = m
    /\ op.pc = "postsync"
    /\ \E ok \in SyncResults :
         op' = [op EXCEPT !.pc = AfterPostSync(ok),
                          !.calls = Append(@, IF ok THEN "sync_ok" ELSE "sync_fail"),
                          !.error = IF AfterPostSync(ok) = "raised" THEN "SyncError" ELSE "none"]
    /\ UNCHANGED <<env, ready, authed, lastLogin, msgs, views, shown, pending, clicks, loop, hist>>

\* on_ready (lines 190-198): the login's failure is logged, not raised.
OnReady ==
    /\ ~ready
    /\ LoopFree
    /\ ready' = TRUE
    /\ \E r \in LoginResults :
         /\ authed' = (authed \/ r.ok)
         /\ lastLogin' = r.mode
    /\ UNCHANGED <<env, msgs, views, shown, pending, clicks, loop, op, hist>>

-----------------------------------------------------------------------------
\* NoteView (lines 147-187)

NoPending == [confirm |-> 0, cancel |-> 0]
NoHist == [confirmClicks |-> 0, storeCalls |-> 0, writes |-> 0, okSaves |-> 0,
           discarded |-> FALSE, reports |-> 0, postFails |-> 0]

\* The user presses a button of a preview whose buttons Discord shows enabled;
\* the interaction reaches the bot, which runs the callback when the event
\* loop is free.
Click(m) ==
    /\ clicks < MaxClicks
    /\ shown[m] = "preview"
    /\ clicks' = clicks + 1
    /\ \/ /\ pending' = [pending EXCEPT ![m].confirm = @ + 1]
          /\ hist' = [hist EXCEPT ![m].confirmClicks = @ + 1]
       \/ /\ pending' = [pending EXCEPT ![m].cancel = @ + 1]
          /\ UNCHANGED hist
    /\ UNCHANGED <<env, ready, authed, lastLogin, msgs, views, shown, loop, op>>

\* confirm, lines 160-168: which KeepClient method is called, and with what.
StoreCall_type_only(view) ==
    IF view.note_type = "LIST"
    THEN [fn |-> "create_list", arg |-> view.content]
    ELSE [fn |-> "create_note",
          arg |-> IF IsList(view.content)
                  THEN CStr(Join(view.content.items)) ELSE view.content]
StoreCall(view) ==
    IF view.note_type = "LIST" /\ IsList(view.content)
    THEN [fn |-> "create_list", arg |-> view.content]
    ELSE [fn |-> "create_note",
          arg |-> IF IsList(view.content)
                  THEN CStr(Join(view.content.items)) ELSE view.content]

\* The confirm callback runs for a press of the view's confirm button (lines
\* 155-156), whatever the view's state.
ConfirmTriggered_on_preview(m) == shown[m] = "preview" /\ hist[m].storeCalls = 0
ConfirmTriggered(m) == pending[m].confirm > 0

\* confirm from its start into its blocking section (lines 157-168): the
\* interaction is deferred and the KeepClient call begins.
ConfirmStore(m) ==
    /\ ConfirmTriggered(m)
    /\ LoopFree
    /\ LET call == StoreCall(views[m])
       IN  op' = [NoOp EXCEPT !.cap = m, !.fn = call.fn, !.title = views[m].title,
                              !.arg = call.arg, !.pc = FirstStep]
    /\ hist' = [hist EXCEPT ![m].storeCalls = @ + 1]
    /\ loop' = m
    /\ pending' = [pending EXCEPT ![m].confirm = @ - 1]
    /\ UNCHANGED <<env, ready, authed, lastLogin, msgs, views, shown, clicks>>

\* confirm, lines 162-175: the call returned; the buttons are disabled and the
\* preview is edited (the edit is taken to reach Discord at once).
ConfirmSaved(m) ==
    /\ loop = m
    /\ op.pc = "returned"
    /\ views' = [views EXCEPT ![m].disabled = TRUE]
    /\ shown' = [shown EXCEPT ![m] = "saved"]
    /\ hist' = [hist EXCEPT ![m].okSaves = @ + 1]
    /\ loop' = 0
    /\ op' = NoOp
    /\ UNCHANGED <<env, ready, authed, lastLogin, msgs, pending, clicks>>

\* The view after the except branch (lines 177-179): lines 172-175 were
\* skipped, so it is as it was.
ViewAfterFailure_disabled(view) == [view EXCEPT !.disabled = TRUE]
ViewAfterFailure(view) == view

\* confirm, lines 177-179: the call raised; the error is logged and sent to
\* the user, the view is left as it was.  postFails counts the failures that
\* came after the backend create.
ConfirmFailed(m) ==
    /\ loop = m
    /\ op.pc = "raised"
    /\ hist' = [hist EXCEPT ![m].reports = @ + 1,
                            ![m].postFails = IF \E i \in 1..Len(op.calls) :
                                                    op.calls[i] \in {"createNote", "createList"}
                                               THEN @ + 1 ELSE @]
    /\ views' = [views EXCEPT ![m] = ViewAfterFailure(views[m])]
    /\ loop' = 0
    /\ op' = NoOp
    /\ UNCHANGED <<env, ready, authed, lastLogin, msgs, shown, pending, clicks>>

\* cancel, lines 184-187: the buttons are disabled and the preview is edited
\* (the edit is taken to reach Discord at once).  Like confirm, it does not
\* look at the view's state first.
Cancel(m) ==
    /\ pending[m].cancel > 0
    /\ LoopFree
    /\ views' = [views EXCEPT ![m].disabled = TRUE]
    /\ shown' = [shown EXCEPT ![m] = "discarded"]
    /\ hist' = [hist EXCEPT ![m].discarded = TRUE]
    /\ pending' = [pending EXCEPT ![m].cancel = @ - 1]
    /\ UNCHANGED <<env, ready, authed, lastLogin, msgs, clicks, loop, op>>

-----------------------------------------------------------------------------
\* The system

Init ==
    /\ env \in Envs
    /\ ready = FALSE
    /\ authed = FALSE
    /\ lastLogin = "never"
    /\ msgs = [m \in Msgs |-> NoMsg]
    /\ views = [m \in Msgs |-> NoView]
    /\ shown = [m \in Msgs |-> "none"]
    /\ pending = [m \in Msgs |-> NoPending]
    /\ clicks = 0
    /\ loop = 0
    /\ op = NoOp
    /\ hist = [m \in Msgs |-> NoHist]

Next ==
    \/ OnReady
    \/ \E m \in Msgs : Receive(m)
    \/ \E m \in Msgs : Analyze(m)
    \/ \E m \in Msgs : Click(m)
    \/ \E m \in Msgs : ConfirmStore(m)
    \/ \E m \in Msgs : PreSync(m)
    \/ \E m \in Msgs : Relogin(m)
    \/ \E m \in Msgs : Create(m)
    \/ \E m \in Msgs : PostSync(m)
    \/ \E m \in Msgs : ConfirmSaved(m)
    \/ \E m \in Msgs : ConfirmFailed(m)
    \/ \E m \in Msgs : Cancel(m)

Spec == Init /\ [][Next]_vars

\* The same program with the owner, the master token and the user name
\* configured, and the LLM answering the first message with any of RichOutputs.
InitCapture ==
    /\ Init
    /\ env.ownerSet
    /\ env.GOOGLE_MASTER_TOKEN /\ env.GOOGLE_USER /\ ~env.GOOGLE_APP_PASSWORD

NextCapture ==
    \/ OnReady
    \/ \E m \in Msgs : Receive(m)
    \/ \E m \in Msgs : AnalyzeAny(m)
    \/ \E m \in Msgs : Click(m)
    \/ \E m \in Msgs : ConfirmStore(m)
    \/ \E m \in Msgs : PreSync(m)
    \/ \E m \in Msgs : Relogin(m)
    \/ \E m \in Msgs : Create(m)
    \/ \E m \in Msgs : PostSync(m)
    \/ \E m \in Msgs : ConfirmSaved(m)
    \/ \E m \in Msgs : ConfirmFailed(m)
    \/ \E m \in Msgs : Cancel(m)

SpecCapture == InitCapture /\ [][NextCapture]_vars

-----------------------------------------------------------------------------
\* Properties

Syncs == {"sync_ok", "sync_fail"}
Creates == {"createNote", "createList"}
Completed == op.pc \in {"returned", "raised"}
CreatesIn(calls) == {i \in 1..Len(calls) : calls[i] \in Creates}
SyncsIn(calls) == {i \in 1..Len(calls) : calls[i] \in Syncs}

\* C1: once a confirm has saved a capture, a further confirm trigger on it is
\* a no-op: StorageSession is not invoked again for that capture.
C1_ConfirmIdempotent ==
    [][\A m \in Msgs : hist[m].okSaves > 0 =>
          hist'[m].storeCalls = hist[m].storeCalls]_vars

\* C2: of the confirm and discard triggers of one capture exactly one takes
\* effect: at most one of {a successful save, a discard}, and at most one
\* backend create in total.
C2_ExactlyOnceResolution ==
    \A m \in Msgs :
        /\ hist[m].okSaves + (IF hist[m].discarded THEN 1 ELSE 0) <= 1
        /\ hist[m].writes <= 1

\* C3: once a discard has been applied to a capture, no createNote/createList
\* is called for it and no later click changes anything.
C3_DiscardIsFinal ==
    [][\A m \in Msgs : hist[m].discarded =>
          /\ hist'[m].writes = hist[m].writes
          /\ hist'[m].storeCalls = hist[m].storeCalls
          /\ shown'[m] = shown[m]]_vars

\* C4: on_message never invokes StorageSession: every KeepClient call and every
\* backend create for a capture follows a press of that capture's confirm
\* button, one call per press at most.
C4_WriteOnlyOnConsent ==
    \A m \in Msgs :
        /\ hist[m].storeCalls <= hist[m].confirmClicks
        /\ hist[m].writes <= hist[m].storeCalls
        /\ (op.cap = m => hist[m].confirmClicks > 0)
C4_Witness ==
    \E m \in Msgs : hist[m].writes = 1 /\ hist[m].confirmClicks = 1
                    /\ \E k \in Msgs : k # m /\ msgs[k].pc = "staged" /\ hist[k].writes = 0

\* C5: in a create operation whose pre-sync failed, whose re-login succeeded
\* and whose next sync succeeded, the operation returns, and it made exactly
\* one login attempt.
ReloginThenSyncOk(calls) ==
    /\ Len(calls) >= 1 /\ calls[1] = "sync_fail"
    /\ \E i \in Logins(calls) :
         /\ calls[i] = "login_ok"
         /\ \E j \in SyncsIn(calls) :
              /\ j > i
              /\ \A k \in SyncsIn(calls) : k > i => k >= j
              /\ calls[j] = "sync_ok"
C5_SessionResilience ==
    (Completed /\ ReloginThenSyncOk(op.calls)) =>
        op.pc = "returned" /\ Cardinality(Logins(op.calls)) = 1
C5_Witness ==
    /\ op.pc = "returned"
    /\ op.calls = <<"sync_fail", "login_ok", "createNote", "sync_ok">>

C7_Bracketed ==
    /\ \A i \in CreatesIn(op.calls) : \E j \in SyncsIn(op.calls) : j < i
    /\ Completed =>
         \A i \in CreatesIn(op.calls) : \E j \in SyncsIn(op.calls) : j > i
    /\ op.pc = "returned" =>
         /\ Len(op.calls) >= 3
         /\ op.calls[Len(op.calls)] = "sync_ok"
         /\ op.calls[Len(op.calls) - 1] \in Creates
C7_Witness ==
    /\ op.pc = "returned"
    /\ op.calls = <<"sync_ok", "createList", "sync_ok">>

\* C8: when the post-sync fails the operation raises the sync error, having
\* made its one backend create; nothing follows the failed post-sync.
PostSyncFailed(calls) ==
    \E i \in CreatesIn(calls) : Len(calls) > i /\ calls[i + 1] = "sync_fail"
C8_PostSyncFailureRaises ==
    PostSyncFailed(op.calls) =>
        /\ op.pc = "raised"
        /\ op.error = "SyncError"
        /\ Cardinality(CreatesIn(op.calls)) = 1
        /\ op.calls[Len(op.calls)] = "sync_fail"
        /\ Cardinality(SyncsIn(op.calls)) = 2
        /\ hist[op.cap].writes >= 1
C8_Witness ==
    /\ op.pc = "raised"
    /\ op.calls = <<"sync_ok", "createNote", "sync_fail">>
    /\ hist[op.cap].writes = 1

\* C9: a message whose author is not the owner gets no reaction, no LLM call,
\* no staged capture and no storage call.
C9_UnauthorizedIgnored ==
    \A m \in Msgs :
        (msgs[m].pc \notin {"none", "own"} /\ msgs[m].author # OWNER_ID) =>
            /\ msgs[m].pc = "ignored"
            /\ msgs[m].reactions = {}
            /\ msgs[m].llmCalls = 0
            /\ msgs[m].reply = "none"
            /\ ~views[m].exists
            /\ shown[m] = "none"
            /\ hist[m] = NoHist
C9_Witness ==
    /\ env.ownerSet
    /\ \E m, k \in Msgs :
         /\ msgs[m].pc = "ignored" /\ msgs[m].author # OWNER_ID
         /\ msgs[k].pc = "staged" /\ msgs[k].author = OWNER_ID

\* C10: with OWNER_ID not configured every message of every author is
\* rejected: no LLM call, nothing staged, no storage call.
C10_DenyByDefault ==
    ~env.ownerSet =>
        /\ \A m \in Msgs :
             /\ msgs[m].pc \in {"none", "own", "ignored"}
             /\ msgs[m].llmCalls = 0
             /\ ~views[m].exists
             /\ hist[m] = NoHist
        /\ op = NoOp
C10_Witness ==
    /\ ~env.ownerSet
    /\ \A a \in AuthorIds : \E m \in Msgs : msgs[m].pc = "ignored" /\ msgs[m].author = a

\* C11: when analyze_text returns its error value for a message, the failure
\* is reported (cross reaction and error message), nothing is staged and no
\* storage call is made for that message.
C11_ClassificationFailureStops ==
    \A m \in Msgs :
        msgs[m].analysis = PyNone =>
            /\ msgs[m].pc = "failed"
            /\ "cross" \in msgs[m].reactions
            /\ msgs[m].reply = "error"
            /\ ~views[m].exists
            /\ shown[m] = "none"
            /\ pending[m] = NoPending
            /\ hist[m] = NoHist
C11_Witness ==
    \E m, k \in Msgs :
        /\ msgs[m].analysis = PyNone /\ msgs[m].pc = "failed"
        /\ k > m /\ hist[k].okSaves = 1

\* C18: an owner's message whose text is empty is dropped before the
\* classification: no LLM call, nothing staged, no storage call.
C18_EmptyTextRejected ==
    \A m \in Msgs :
        (msgs[m].pc \in {"empty", "failed", "crashed", "staged"} /\ msgs[m].text = <<>>) =>
            /\ msgs[m].pc = "empty"
            /\ msgs[m].author = OWNER_ID
            /\ msgs[m].llmCalls = 0
            /\ msgs[m].analysis = NotAnalyzed
            /\ msgs[m].reply = "none"
            /\ ~views[m].exists
            /\ shown[m] = "none"
            /\ hist[m] = NoHist
C18_Witness ==
    \E m, k \in Msgs :
        /\ msgs[m].pc = "empty" /\ msgs[m].text = <<>> /\ msgs[m].author = OWNER_ID
        /\ msgs[k].pc = "staged" /\ msgs[k].text # <<>>

\* C14: the KeepClient operations do not overlap: at most one is in progress,
\* it belongs to the callback holding the event loop, and no other capture has
\* an operation begun and not ended.
InFlight(m) == hist[m].storeCalls - hist[m].okSaves - hist[m].reports
RECURSIVE TotalInFlight(_)
TotalInFlight(n) == IF n = 0 THEN 0 ELSE InFlight(n) + TotalInFlight(n - 1)
C14_SerializedStorage ==
    /\ TotalInFlight(MaxMsgs) <= 1
    /\ \A m \in Msgs : InFlight(m) = (IF loop = m THEN 1 ELSE 0)
    /\ (loop # 0) = (op.pc # "idle")
    /\ loop # 0 => op.cap = loop
C14_Witness ==
    \E m, k \in Msgs :
        /\ m # k
        /\ loop = m /\ op.pc = "postsync"
        /\ pending[k].confirm > 0

\* C15: a login uses the token whenever one is configured, the user and
\* password only when no token is, and raises without them; with neither
\* configured the client is never authenticated and no backend create is made.
HasPair == env.GOOGLE_USER /\ env.GOOGLE_APP_PASSWORD
C15_CredentialPolicy ==
    /\ lastLogin # "never" =>
         /\ env.GOOGLE_MASTER_TOKEN => lastLogin = "token"
         /\ (~env.GOOGLE_MASTER_TOKEN /\ HasPair) => lastLogin = "password"
         /\ (~env.GOOGLE_MASTER_TOKEN /\ ~HasPair) => lastLogin = "none"
    /\ (~env.GOOGLE_MASTER_TOKEN /\ ~HasPair) =>
         /\ ~authed
         /\ \A m \in Msgs : hist[m].writes = 0 /\ hist[m].okSaves = 0
         /\ CreatesIn(op.calls) = {}
C15_Witness ==
    /\ ~env.GOOGLE_MASTER_TOKEN /\ ~HasPair /\ env.GOOGLE_USER
    /\ lastLogin = "none"
    /\ \E m \in Msgs : hist[m].reports = 2

\* C19: a confirm whose storage call raised leaves the view's buttons and the
\* shown preview as they were; every confirm callback that runs invokes
\* StorageSession, whatever happened before; and a save that follows failed
\* post-syncs has made one backend create more per such failure.
C19_FailedConfirmStaysConfirmable ==
    [][\A m \in Msgs :
         /\ hist'[m].reports > hist[m].reports =>
              /\ views'[m].disabled = views[m].disabled
              /\ shown'[m] = shown[m]
         /\ pending'[m].confirm < pending[m].confirm =>
              hist'[m].storeCalls = hist[m].storeCalls + 1
         /\ hist'[m].okSaves > hist[m].okSaves =>
              hist'[m].writes = hist'[m].okSaves + hist'[m].postFails]_vars
C19_Witness ==
    \E m \in Msgs :
        /\ hist[m].postFails = 1 /\ hist[m].okSaves = 1 /\ hist[m].writes = 2
        /\ ~hist[m].discarded

\* The title the capture carries after lines 228-230.
EffectiveTitle(a) == IF a.title = Absent THEN DefaultTitle ELSE a.title

\* C12: for every non-empty text and every LLM answer, the classification
\* either is reported as malformed or yields a result whose title is not
\* empty; nothing is raised unhandled while the result is taken apart.
C12_ClassifyTotal ==
    \A m \in Msgs :
        msgs[m].llmCalls > 0 =>
            \/ msgs[m].pc = "failed" /\ msgs[m].reply = "error"
            \/ /\ msgs[m].analysis.kind = "object"
               /\ EffectiveTitle(msgs[m].analysis) # ""

\* C13: every capture that reached the classifier ends staged with a preview
\* or with a visible failure reaction and message; no exception leaves
\* on_message.
C13_AllErrorsReported ==
    \A m \in Msgs :
        msgs[m].llmCalls > 0 =>
            \/ msgs[m].pc = "staged" /\ msgs[m].reply = "preview" /\ views[m].exists
            \/ /\ msgs[m].pc = "failed" /\ msgs[m].reply = "error"
               /\ "cross" \in msgs[m].reactions

\* The lines of a string: its pieces between newlines.
RECURSIVE Lines(_)
Lines(s) ==
    IF \A i \in 1..Len(s) : s[i] # NL THEN <<s>>
    ELSE LET k == CHOOSE i \in 1..Len(s) : s[i] = NL /\ \A j \in 1..(i - 1) : s[j] # NL
         IN  <<SubSeq(s, 1, k - 1)>> \o Lines(SubSeq(s, k + 1, Len(s)))

CreateCalled(c) == \E i \in 1..Len(op.calls) : op.calls[i] = c

\* C16: on confirm, createList is invoked exactly when the classification's
\* type is LIST and its content is a sequence, and then with that sequence;
\* otherwise createNote is invoked with one string: the content's elements
\* joined by newlines when it was a sequence, the content itself otherwise.
C16_NormalizeAndDispatch ==
    (loop # 0 /\ CreatesIn(op.calls) # {}) =>
        LET a == msgs[op.cap].analysis
            isList == a.type = "LIST" /\ a.content.tag = "list"
        IN  /\ CreateCalled("createList") <=> isList
            /\ CreateCalled("createNote") <=> ~isList
            /\ isList => op.fn = "create_list" /\ op.arg = a.content
            /\ ~isList =>
                 /\ op.fn = "create_note" /\ op.arg.tag = "str" /\ op.sent = op.arg.str
                 /\ a.content.tag = "str" => op.sent = a.content.str
                 /\ a.content.tag = "list" =>
                      IF a.content.items = <<>> THEN op.sent = <<>>
                      ELSE Lines(op.sent) = a.content.items
C16_Witness ==
    /\ loop # 0 /\ CreateCalled("createNote")
    /\ msgs[loop].analysis.content.tag = "list"
    /\ op.sent = <<"a", NL, "b">>

\* C17: the backend's createList receives one entry per item given to
\* create_list, in the same order, each unchecked.
C17_ListOrderPreserved ==
    (loop # 0 /\ CreateCalled("createList")) =>
        /\ Len(op.sent) = Len(op.arg.items)
        /\ \A i \in 1..Len(op.arg.items) :
             op.sent[i].text = op.arg.items[i] /\ ~op.sent[i].checked
C17_Witness ==
    /\ loop # 0 /\ CreateCalled("createList")
    /\ op.arg.items = <<TextB, TextAB, TextA>>
    /\ Len(op.sent) = 3 /\ op.sent[1].text = TextB /\ op.sent[3].text = TextA

====
